---- MODULE Spec2Model ----
(***************************************************************************)
(* State-machine model of app.py (flask_robot_trigger): the flow registry  *)
(* (load_flows), the in-memory rate limiter (check_rate_limit), the audit  *)
(* logger (log_trigger) and the POST /trigger/<flow_id> handler            *)
(* (trigger_flow).                                                         *)
(*                                                                         *)
(* Strings the code trims (name, key, launch_key) are sequences of         *)
(* one-character strings, so that str.strip() is computed.  The clock      *)
(* (time.time(), datetime.utcnow()) is the integer variable now.           *)
(***************************************************************************)
EXTENDS Integers, Sequences, FiniteSets, TLC

VARIABLES
    now,          \* the wall clock read by time.time() / datetime.utcnow()
    rate_limits,  \* app.py:19  defaultdict(list): client ip -> accepted stamps
    accepted,     \* history: per ip, every stamp check_rate_limit ever recorded
    rl,           \* history: the last check_rate_limit call made on its own
    ncalls,       \* history: number of stand-alone check_rate_limit calls
    config,       \* the collaborators load_flows reads: flows.yml and os.environ
    flows,        \* what the last stand-alone load_flows() call returned
    loaded,       \* history: whether that call was made
    log_exists,   \* csv_path.exists() for logs/trigger_log.csv
    log,          \* the lines of logs/trigger_log.csv, oldest first
    outbound,     \* the outbound GET requests issued so far
    last,         \* history: the last POST /trigger request and how it ended
    compared,     \* history: per ip, when a code was compared with a secret
    nreq,         \* history: number of POST /trigger requests handled
    probed,       \* history: whether a request other than the routine ones was made
    pc,           \* per worker thread, where it stands in check_rate_limit
    call,         \* per worker thread, the locals of its check_rate_limit call
    raced         \* history: whether two calls for one ip ever overlapped

vars == <<now, rate_limits, accepted, rl, ncalls, config, flows, loaded,
          log_exists, log, outbound, last, compared, nreq, probed,
          pc, call, raced>>

limiter_vars == <<rl, ncalls>>
registry_vars == <<flows, loaded>>
trigger_vars == <<log_exists, log, outbound, last, compared, nreq, probed>>
thread_vars == <<pc, call, raced>>

----------------------------------------------------------------------------
(* Program constants *)

RATE_LIMIT_REQUESTS == 10
RATE_LIMIT_WINDOW == 300

(* Bounds of the exploration *)

MaxTime == 600
MaxTriggerTime == 300
MaxCalls == 12
MaxRequests == 12
MaxConcCalls == 4
NThreads == 2

IPs == {"10.0.0.1", "10.0.0.2"}
Deltas == {RATE_LIMIT_WINDOW - 1, RATE_LIMIT_WINDOW}

----------------------------------------------------------------------------
(* check_rate_limit, app.py:95-106 *)

\* rate_limits[ip] on a defaultdict(list): a missing key reads as []
Bucket(limits, ip) == IF ip \in DOMAIN limits THEN limits[ip] ELSE <<>>

SetBucket(limits, ip, list) ==
    [k \in (DOMAIN limits) \cup {ip} |-> IF k = ip THEN list ELSE limits[k]]

\* a pruning that keeps the stamp exactly one window old
PrunedInclusive(list, t) ==
    SelectSeq(list, LAMBDA req_time : t - req_time <= RATE_LIMIT_WINDOW)

\* line 99-100: keep the stamps younger than the window
Pruned(list, t) == SelectSeq(list, LAMBDA req_time : t - req_time < RATE_LIMIT_WINDOW)

\* a test that lets the list grow one past the capacity
FullOneMore(list) == Len(list) > RATE_LIMIT_REQUESTS

\* line 102: len(rate_limits[ip]) >= RATE_LIMIT_REQUESTS
Full(list) == Len(list) >= RATE_LIMIT_REQUESTS

\* line 99-106: the value the call returns
RateAllowed(list, t) == ~Full(Pruned(list, t))

\* the bucket after the call: pruned, and the stamp appended on acceptance
RateAfter(list, t) ==
    IF RateAllowed(list, t) THEN Append(Pruned(list, t), t) ELSE Pruned(list, t)

\* history of recorded stamps, never pruned
Recorded(hist, ip, list, t) ==
    IF RateAllowed(list, t) THEN [hist EXCEPT ![ip] = Append(@, t)] ELSE hist

----------------------------------------------------------------------------
(* Strings the code inspects character by character *)

WS == {" ", "\t", "\n"}

RECURSIVE LStrip(_)
LStrip(s) == IF s # <<>> /\ Head(s) \in WS THEN LStrip(Tail(s)) ELSE s

RECURSIVE RStrip(_)
RStrip(s) ==
    IF s # <<>> /\ s[Len(s)] \in WS THEN RStrip(SubSeq(s, 1, Len(s) - 1)) ELSE s

\* str.strip()
Strip(s) == RStrip(LStrip(s))

StartsWith(s, p) == Len(s) >= Len(p) /\ SubSeq(s, 1, Len(p)) = p
EndsWith(s, p) == Len(s) >= Len(p) /\ SubSeq(s, Len(s) - Len(p) + 1, Len(s)) = p

\* first index >= from at which s holds c, 0 when there is none
RECURSIVE Find(_, _, _)
Find(s, c, from) ==
    IF from > Len(s) THEN 0
    ELSE IF s[from] = c THEN from
    ELSE Find(s, c, from + 1)

UPPER == <<"A","B","C","D","E","F","G","H","I","J","K","L","M",
           "N","O","P","Q","R","S","T","U","V","W","X","Y","Z">>
LOWER == <<"a","b","c","d","e","f","g","h","i","j","k","l","m",
           "n","o","p","q","r","s","t","u","v","w","x","y","z">>

LowerChar(c) ==
    IF \E i \in 1..Len(UPPER) : UPPER[i] = c
    THEN LOWER[CHOOSE i \in 1..Len(UPPER) : UPPER[i] = c]
    ELSE c

\* str.lower()
Lower(s) == [i \in 1..Len(s) |-> LowerChar(s[i])]

\* key.split('_', 2) once the first two underscores are found at i and j
SplitAt(key, i, j) ==
    IF i = 0 THEN <<key>>
    ELSE IF j = 0 THEN <<SubSeq(key, 1, i - 1), SubSeq(key, i + 1, Len(key))>>
    ELSE <<SubSeq(key, 1, i - 1), SubSeq(key, i + 1, j - 1),
           SubSeq(key, j + 1, Len(key))>>

SplitFrom(key, i) == SplitAt(key, i, IF i = 0 THEN 0 ELSE Find(key, "_", i + 1))

\* key.split('_', 2): at most two cuts, the rest kept whole
SplitMax2(key) == SplitFrom(key, Find(key, "_", 1))

----------------------------------------------------------------------------
(* The flow registry, app.py:23-89 *)

\* os.getenv(name, default) over os.environ, a sequence of [key, value]
Getenv(environ, name, default) ==
    IF \E i \in 1..Len(environ) : environ[i].key = name
    THEN environ[CHOOSE i \in 1..Len(environ) : environ[i].key = name].value
    ELSE default

\* resolve_env_variables, line 23-28
resolve_env_variables(environ, value) ==
    IF StartsWith(value, <<"$", "{">>) /\ EndsWith(value, <<"}">>)
    THEN Getenv(environ, SubSeq(value, 3, Len(value) - 1), value)
    ELSE value

\* line 43-45: the two fields of each YAML flow that are resolved
ResolveFlows(environ, yaml_flows) ==
    [i \in 1..Len(yaml_flows) |->
        [yaml_flows[i] EXCEPT
            !.flow_url = resolve_env_variables(environ, @),
            !.launch_key = resolve_env_variables(environ, @)]]

\* line 54: the variables that belong to a FLOW_<N>_<FIELD> group
IsGroupKey(key) ==
    StartsWith(key, <<"F", "L", "O", "W", "_">>) /\ Find(key, "_", 6) # 0

GroupIndex(groups, num) ==
    IF \E i \in 1..Len(groups) : groups[i].num = num
    THEN CHOOSE i \in 1..Len(groups) : groups[i].num = num
    ELSE 0

SetField(data, field, value) ==
    [f \in (DOMAIN data) \cup {field} |-> IF f = field THEN value ELSE data[f]]

\* line 59-61: flow_groups[flow_num][field] = value, the group made when new
PutAt(groups, at, flow_num, field, value) ==
    IF at = 0
    THEN Append(groups, [num |-> flow_num, data |-> SetField(<<>>, field, value)])
    ELSE [groups EXCEPT ![at].data = SetField(@, field, value)]

\* line 55-61: one variable of a group, parts being key.split('_', 2)
PutParts(groups, parts, value) ==
    IF Len(parts) >= 3
    THEN PutAt(groups, GroupIndex(groups, parts[2]), parts[2], Lower(parts[3]), value)
    ELSE groups

\* line 52-61: flow_groups, in the order the groups are first seen
RECURSIVE FlowGroups(_, _, _)
FlowGroups(environ, i, groups) ==
    IF i > Len(environ) THEN groups
    ELSE IF ~IsGroupKey(environ[i].key) THEN FlowGroups(environ, i + 1, groups)
    ELSE FlowGroups(environ, i + 1,
            PutParts(groups, SplitMax2(environ[i].key), environ[i].value))

F_ID == <<"i", "d">>
F_URL == <<"u", "r", "l">>
F_KEY == <<"k", "e", "y">>
F_TITLE == <<"t", "i", "t", "l", "e">>
F_DESC == <<"d", "e", "s", "c">>

\* line 65
GroupComplete(data) == {F_ID, F_URL, F_KEY, F_TITLE, F_DESC} \subseteq DOMAIN data

\* line 66-72
EnvFlow(data) ==
    [id |-> data[F_ID], title |-> data[F_TITLE], description |-> data[F_DESC],
     flow_url |-> data[F_URL], launch_key |-> data[F_KEY]]

\* line 64-72
RECURSIVE EnvFlows(_, _)
EnvFlows(groups, i) ==
    IF i > Len(groups) THEN <<>>
    ELSE (IF GroupComplete(groups[i].data) THEN <<EnvFlow(groups[i].data)>> ELSE <<>>)
         \o EnvFlows(groups, i + 1)

K_FLOW_URL == <<"F", "L", "O", "W", "_", "U", "R", "L">>
K_LAUNCH_KEY == <<"L", "A", "U", "N", "C", "H", "_", "K", "E", "Y">>

\* line 80-87
LegacyOr(flow_url, launch_key) ==
    IF flow_url # <<>> /\ launch_key # <<>>
    THEN <<[id |-> "legacy_flow", title |-> "Legacy RPA Flow",
            description |-> "Original single flow configuration",
            flow_url |-> flow_url, launch_key |-> launch_key]>>
    ELSE <<>>

\* line 78-89: os.getenv without a default gives None, falsy like ''
LegacyFlows(environ) ==
    LegacyOr(Getenv(environ, K_FLOW_URL, <<>>), Getenv(environ, K_LAUNCH_KEY, <<>>))

\* line 74-89
EnvOrLegacy(env_flows, environ) ==
    IF env_flows # <<>> THEN env_flows ELSE LegacyFlows(environ)

\* line 51-89: what load_flows does once the YAML file is out of the way
FallbackFlows(environ) ==
    EnvOrLegacy(EnvFlows(FlowGroups(environ, 1, <<>>), 1), environ)

\* a registry that skips a YAML file listing no flows
load_flows_nonempty(cfg) ==
    IF cfg.yaml.exists /\ cfg.yaml.valid /\ cfg.yaml.flows # <<>>
    THEN ResolveFlows(cfg.environ, cfg.yaml.flows)
    ELSE FallbackFlows(cfg.environ)

\* load_flows, line 30-89.  cfg.yaml is [exists, valid, flows]: valid is FALSE
\* when reading the file raises inside the try of line 37-49
load_flows(cfg) ==
    IF cfg.yaml.exists /\ cfg.yaml.valid
    THEN ResolveFlows(cfg.environ, cfg.yaml.flows)
    ELSE FallbackFlows(cfg.environ)

----------------------------------------------------------------------------
(* The audit logger, app.py:108-136 *)

UA_MAX == 200

EMPTY == <<"E", "M", "P", "T", "Y">>

\* line 132-135: the header line; a line is a record whose kind tells the header
\* from a data row, the header's cells being its column names
HeaderLine ==
    [kind |-> "header", time_utc |-> 0, flow_id |-> "", flow_title |-> "",
     name |-> <<>>, status |-> "", http_status |-> "", ip |-> "", ua |-> <<>>]

\* line 113-126: the row of one attempt.  http_status None is 0 here (both are
\* written as the empty cell by `http_status or ""`), ip None is ""
Row(t, flow_id, flow_title, name, status, http_status, ip, user_agent) ==
    [kind |-> "row", time_utc |-> t, flow_id |-> flow_id, flow_title |-> flow_title,
     name |-> name, status |-> status,
     http_status |-> IF http_status = 0 THEN "" ELSE ToString(http_status),
     ip |-> ip,
     ua |-> IF Len(user_agent) > UA_MAX THEN SubSeq(user_agent, 1, UA_MAX)
            ELSE user_agent]

\* a logger that opens the file for writing instead of appending
log_trigger_rewrite(exists, lines, row) == <<HeaderLine, row>>

\* line 128-136: the file after log_trigger appended `row`
log_trigger(exists, lines, row) ==
    IF ~exists THEN Append(Append(lines, HeaderLine), row) ELSE Append(lines, row)

\* the file after the handler's log_trigger calls that did not raise
RECURSIVE WriteAll(_, _, _)
WriteAll(exists, lines, rows) ==
    IF rows = <<>> THEN lines
    ELSE WriteAll(TRUE, log_trigger(exists, lines, Head(rows)), Tail(rows))

----------------------------------------------------------------------------
(* POST /trigger/<flow_id>, app.py:156-222 *)

\* line 160: next((f for f in flows if f['id'] == flow_id), None), as an index
Lookup(fl, flow_id) ==
    IF \E i \in 1..Len(fl) : fl[i].id = flow_id
    THEN CHOOSE i \in 1..Len(fl) :
            /\ fl[i].id = flow_id
            /\ \A j \in 1..(i - 1) : fl[j].id # flow_id
    ELSE 0

\* get_client_ip, line 91-93
get_client_ip(req) == IF req.xff.present THEN req.xff.value ELSE req.remote_addr

\* a validation that rejects only when both fields are blank
InputValidEither(name, key) == ~(name = <<>> /\ key = <<>>)

\* line 179: `if not name or not key` is the negation of this
InputValid(name, key) == ~(name = <<>> \/ key = <<>>)

\* line 181: name or "EMPTY"
NameOrEmpty(name) == IF name = <<>> THEN EMPTY ELSE name

\* line 186: `if key != flow['launch_key']` is the negation of this
KeyMatches(key, launch_key) == ~(key # launch_key)

\* a classification that takes every 2xx status for a success
ClassifyAny2xx(status_code) == IF status_code \in 200..299 THEN "OK" ELSE "HTTP_ERROR"

\* line 208-215: the status of a response that came back
Classify(status_code) == IF status_code \in {200, 202} THEN "OK" ELSE "HTTP_ERROR"

\* how a request ended: its state, where it redirects, the rows its log_trigger
\* calls wrote, whether check_rate_limit ran, whether the code was compared
\* with the secret, and the outbound calls it issued
Done(kind, redirect, rows, chk, cmp, calls) ==
    [kind |-> kind, redirect |-> redirect, rows |-> rows,
     checked |-> chk, compared |-> cmp, calls |-> calls]

\* the handler left by an exception nothing catches
Unhandled(chk, cmp, calls) == Done("UNHANDLED", "none", <<>>, chk, cmp, calls)

\* line 195-200: the query parameters of the outbound GET
OutboundCall(flow, t, req, name) ==
    [url |-> flow.flow_url, triggered_by |-> name, trigger_time |-> t,
     source |-> "flask", flow_id |-> req.flow_id]

\* line 217-222: the except branch; its log_trigger call is not protected
Except(flow, ip, t, req, name, failed) ==
    IF failed THEN Unhandled(TRUE, TRUE, <<OutboundCall(flow, t, req, name)>>)
    ELSE Done("EXCEPTION", "flow_login",
              <<Row(t, req.flow_id, flow.title, name, "EXCEPTION", 0, ip, req.ua)>>,
              TRUE, TRUE, <<OutboundCall(flow, t, req, name)>>)

\* line 208-215, 222: a response came back and its row was written
Answered(flow, ip, t, req, name, status, status_code) ==
    Done(status, "flow_login",
         <<Row(t, req.flow_id, flow.title, name, status, status_code, ip, req.ua)>>,
         TRUE, TRUE, <<OutboundCall(flow, t, req, name)>>)

\* line 193-222: the try block.  resp is the outcome of requests.get,
\* [raised, status_code]; fails[i] tells whether the i-th log_trigger call of
\* the request raises (before it writes anything)
Dispatch(flow, ip, t, req, name, resp, fails) ==
    IF resp.raised THEN Except(flow, ip, t, req, name, fails[1])
    ELSE IF fails[1] THEN Except(flow, ip, t, req, name, fails[2])
    ELSE Answered(flow, ip, t, req, name, Classify(resp.status_code), resp.status_code)

\* a secret check whose ACCESS_DENIED branch does not return
CheckSecretNoReturn(flow, ip, t, req, name, key, resp, fails) ==
    IF ~KeyMatches(key, flow.launch_key)
    THEN [Dispatch(flow, ip, t, req, name, resp, fails) EXCEPT
            !.rows = <<Row(t, req.flow_id, flow.title, name, "ACCESS_DENIED", 0, ip,
                           req.ua)>> \o @]
    ELSE Dispatch(flow, ip, t, req, name, resp, fails)

\* line 185-190
CheckSecret(flow, ip, t, req, name, key, resp, fails) ==
    IF ~KeyMatches(key, flow.launch_key)
    THEN IF fails[1] THEN Unhandled(TRUE, TRUE, <<>>)
         ELSE Done("ACCESS_DENIED", "flow_login",
                   <<Row(t, req.flow_id, flow.title, name, "ACCESS_DENIED", 0, ip,
                         req.ua)>>,
                   TRUE, TRUE, <<>>)
    ELSE Dispatch(flow, ip, t, req, name, resp, fails)

\* line 175-183, name and key already stripped
Validate(flow, ip, t, req, name, key, resp, fails) ==
    IF ~InputValid(name, key)
    THEN IF fails[1] THEN Unhandled(TRUE, FALSE, <<>>)
         ELSE Done("VALIDATION_ERROR", "flow_login",
                   <<Row(t, req.flow_id, flow.title, NameOrEmpty(name),
                         "VALIDATION_ERROR", 0, ip, req.ua)>>,
                   TRUE, FALSE, <<>>)
    ELSE CheckSecret(flow, ip, t, req, name, key, resp, fails)

\* a rate check that writes an audit row for the rejected client
RateCheckLogged(flow, ip, limits, t, req, resp, fails) ==
    IF ~RateAllowed(Bucket(limits, ip), t)
    THEN Done("RATE_LIMITED", "flow_login",
              <<Row(t, req.flow_id, flow.title, Strip(req.name), "RATE_LIMITED", 0, ip,
                    req.ua)>>,
              TRUE, FALSE, <<>>)
    ELSE Validate(flow, ip, t, req, Strip(req.name), Strip(req.key), resp, fails)

\* line 166-177
RateCheck(flow, ip, limits, t, req, resp, fails) ==
    IF ~RateAllowed(Bucket(limits, ip), t)
    THEN Done("RATE_LIMITED", "flow_login", <<>>, TRUE, FALSE, <<>>)
    ELSE Validate(flow, ip, t, req, Strip(req.name), Strip(req.key), resp, fails)

\* a handler that runs the rate check before it looks the flow up
FindFlowAfterRate(fl, at, limits, t, req, resp, fails) ==
    IF at = 0 THEN Done("NOT_FOUND", "dashboard", <<>>, TRUE, FALSE, <<>>)
    ELSE RateCheck(fl[at], get_client_ip(req), limits, t, req, resp, fails)

\* line 160-167
FindFlow(fl, at, limits, t, req, resp, fails) ==
    IF at = 0 THEN Done("NOT_FOUND", "dashboard", <<>>, FALSE, FALSE, <<>>)
    ELSE RateCheck(fl[at], get_client_ip(req), limits, t, req, resp, fails)

\* trigger_flow from its first line to its return or its escaping exception
Handler(fl, limits, t, req, resp, fails) ==
    FindFlow(fl, Lookup(fl, req.flow_id), limits, t, req, resp, fails)

----------------------------------------------------------------------------
(* The collaborators' states the exploration draws from *)

Entry(k, v) == [key |-> k, value |-> v]

K_ROBOT_KEY == <<"R", "O", "B", "O", "T", "_", "K", "E", "Y">>

\* FLOW_<num>_ID, _URL, _KEY, _TITLE and, when whole, _DESC
GroupEntries(num, id, whole) ==
    LET pre == <<"F", "L", "O", "W", "_", num, "_">>
    IN  << Entry(pre \o <<"I", "D">>, id),
           Entry(pre \o <<"U", "R", "L">>, <<"u", num>>),
           Entry(pre \o <<"K", "E", "Y">>, <<"k", num>>),
           Entry(pre \o <<"T", "I", "T", "L", "E">>, "Flow from env") >>
        \o IF whole THEN <<Entry(pre \o <<"D", "E", "S", "C">>, "from env")>> ELSE <<>>

GroupShapes == {"none", "whole", "partial"}
LegacyShapes == {"none", "both", "url_only", "empty_key"}
YamlShapes == {"absent", "broken", "empty", "one", "one_ref", "two"}

GroupOf(shape, num, id) ==
    IF shape = "none" THEN <<>> ELSE GroupEntries(num, id, shape = "whole")

LegacyOf(shape) ==
    CASE shape = "none" -> <<>>
      [] shape = "both" -> <<Entry(K_FLOW_URL, <<"l", "u">>), Entry(K_LAUNCH_KEY, <<"l", "k">>)>>
      [] shape = "url_only" -> <<Entry(K_FLOW_URL, <<"l", "u">>)>>
      [] shape = "empty_key" -> <<Entry(K_FLOW_URL, <<"l", "u">>), Entry(K_LAUNCH_KEY, <<>>)>>

YamlFlow(id, key) ==
    [id |-> id, title |-> "Flow from file", description |-> "from file",
     flow_url |-> <<"h", "1">>, launch_key |-> key]

REF_ROBOT_KEY == <<"$", "{">> \o K_ROBOT_KEY \o <<"}">>

YamlOf(shape) ==
    CASE shape = "absent" -> [exists |-> FALSE, valid |-> FALSE, flows |-> <<>>]
      [] shape = "broken" -> [exists |-> TRUE, valid |-> FALSE, flows |-> <<>>]
      [] shape = "empty" -> [exists |-> TRUE, valid |-> TRUE, flows |-> <<>>]
      [] shape = "one" -> [exists |-> TRUE, valid |-> TRUE,
                           flows |-> <<YamlFlow("f1", <<"k">>)>>]
      [] shape = "one_ref" -> [exists |-> TRUE, valid |-> TRUE,
                               flows |-> <<YamlFlow("f2", REF_ROBOT_KEY)>>]
      [] shape = "two" -> [exists |-> TRUE, valid |-> TRUE,
                           flows |-> <<YamlFlow("f1", <<"k">>),
                                       YamlFlow("f2", REF_ROBOT_KEY)>>]

Shapes ==
    [yaml : YamlShapes, g1 : GroupShapes, g2 : GroupShapes, g2_first : BOOLEAN,
     legacy : LegacyShapes, robot : BOOLEAN]

EnvironOf(sh) ==
    (IF sh.robot THEN <<Entry(K_ROBOT_KEY, <<"s">>)>> ELSE <<>>)
    \o (IF sh.g2_first
        THEN GroupOf(sh.g2, "2", "e2") \o GroupOf(sh.g1, "1", "e1")
        ELSE GroupOf(sh.g1, "1", "e1") \o GroupOf(sh.g2, "2", "e2"))
    \o LegacyOf(sh.legacy)

ConfigOf(sh) == [yaml |-> YamlOf(sh.yaml), environ |-> EnvironOf(sh), shape |-> sh]

\* the deployment the trigger requests run against: two flows from flows.yml
TriggerShape ==
    [yaml |-> "two", g1 |-> "whole", g2 |-> "none", g2_first |-> FALSE,
     legacy |-> "both", robot |-> TRUE]

----------------------------------------------------------------------------
Threads == 1..NThreads

\* the locals of a call: ip, now, the list the comprehension built, and what
\* the list reference loaded for append points to
NoLocals == [ip |-> "", now |-> 0, built |-> <<>>, ref |-> "none"]

NoCall == [ip |-> "", at |-> 0, ok |-> TRUE, made |-> FALSE, after_reject |-> FALSE]

InitCommon ==
    /\ now = 0
    /\ rate_limits = <<>>
    /\ accepted = [ip \in IPs |-> <<>>]
    /\ rl = NoCall
    /\ ncalls = 0
    /\ flows = <<>>
    /\ loaded = FALSE
    /\ pc = [th \in Threads |-> "idle"]
    /\ call = [th \in Threads |-> NoLocals]
    /\ raced = FALSE

Tick(d, max) ==
    /\ now + d <= max
    /\ now' = now + d
    /\ UNCHANGED <<rate_limits, accepted, config>>
    /\ UNCHANGED <<limiter_vars, registry_vars, trigger_vars, thread_vars>>

----------------------------------------------------------------------------
(* The rate limiter called on its own *)

\* one call check_rate_limit(ip), run to completion
CheckRateLimit(ip) ==
    /\ ncalls < MaxCalls
    /\ rate_limits' = SetBucket(rate_limits, ip, RateAfter(Bucket(rate_limits, ip), now))
    /\ accepted' = Recorded(accepted, ip, Bucket(rate_limits, ip), now)
    /\ rl' = [ip |-> ip, at |-> now, ok |-> RateAllowed(Bucket(rate_limits, ip), now),
              made |-> TRUE, after_reject |-> (rl.made /\ rl.ip = ip /\ ~rl.ok)]
    /\ ncalls' = ncalls + 1
    /\ UNCHANGED <<now, config>>
    /\ UNCHANGED <<registry_vars, trigger_vars, thread_vars>>

----------------------------------------------------------------------------
(* check_rate_limit run by worker threads that share rate_limits, no lock
   held: the thread may be switched between any two of these steps *)

\* line 97: now = time.time()
Begin(th, ip) ==
    /\ pc[th] = "idle"
    /\ ncalls < MaxConcCalls
    /\ pc' = [pc EXCEPT ![th] = "prune"]
    /\ call' = [call EXCEPT ![th] = [NoLocals EXCEPT !.ip = ip, !.now = now]]
    /\ raced' = (raced \/ \E other \in Threads \ {th} :
                              pc[other] # "idle" /\ call[other].ip = ip)
    /\ ncalls' = ncalls + 1
    /\ UNCHANGED <<now, rate_limits, accepted, rl, config>>
    /\ UNCHANGED <<registry_vars, trigger_vars>>

\* line 99-100, right-hand side: the comprehension builds a new list
PruneBuild(th) ==
    /\ pc[th] = "prune"
    /\ call' = [call EXCEPT
                  ![th].built = Pruned(Bucket(rate_limits, call[th].ip), call[th].now)]
    /\ pc' = [pc EXCEPT ![th] = "store"]
    /\ UNCHANGED <<now, rate_limits, accepted, config, raced>>
    /\ UNCHANGED <<limiter_vars, registry_vars, trigger_vars>>

\* line 99: rate_limits[ip] = <the new list>; a reference another thread
\* loaded from the map now points to a list the map no longer holds
PruneStore(th) ==
    /\ pc[th] = "store"
    /\ rate_limits' = SetBucket(rate_limits, call[th].ip, call[th].built)
    /\ call' = [other \in Threads |->
                  IF call[other].ref = "mapped" /\ call[other].ip = call[th].ip
                  THEN [call[other] EXCEPT !.ref = "dropped"]
                  ELSE call[other]]
    /\ pc' = [pc EXCEPT ![th] = "check"]
    /\ UNCHANGED <<now, accepted, config, raced>>
    /\ UNCHANGED <<limiter_vars, registry_vars, trigger_vars>>

\* line 102-103: return False when the list is full
LengthCheck(th) ==
    /\ pc[th] = "check"
    /\ IF Full(Bucket(rate_limits, call[th].ip))
       THEN /\ pc' = [pc EXCEPT ![th] = "idle"]
            /\ rl' = [ip |-> call[th].ip, at |-> call[th].now, ok |-> FALSE,
                      made |-> TRUE, after_reject |-> FALSE]
       ELSE /\ pc' = [pc EXCEPT ![th] = "load"]
            /\ rl' = rl
    /\ UNCHANGED <<now, rate_limits, accepted, ncalls, config, call, raced>>
    /\ UNCHANGED <<registry_vars, trigger_vars>>

\* line 105, rate_limits[ip]: the list to append to is looked up
AppendLoad(th) ==
    /\ pc[th] = "load"
    /\ call' = [call EXCEPT ![th].ref = "mapped"]
    /\ pc' = [pc EXCEPT ![th] = "append"]
    /\ UNCHANGED <<now, rate_limits, accepted, config, raced>>
    /\ UNCHANGED <<limiter_vars, registry_vars, trigger_vars>>

\* line 105-106: .append(now); return True
AppendCall(th) ==
    /\ pc[th] = "append"
    /\ rate_limits' =
            IF call[th].ref = "mapped"
            THEN SetBucket(rate_limits, call[th].ip,
                           Append(Bucket(rate_limits, call[th].ip), call[th].now))
            ELSE rate_limits
    /\ accepted' = [accepted EXCEPT ![call[th].ip] = Append(@, call[th].now)]
    /\ rl' = [ip |-> call[th].ip, at |-> call[th].now, ok |-> TRUE,
              made |-> TRUE, after_reject |-> FALSE]
    /\ call' = [call EXCEPT ![th].ref = "none"]
    /\ pc' = [pc EXCEPT ![th] = "idle"]
    /\ UNCHANGED <<now, ncalls, config, raced>>
    /\ UNCHANGED <<registry_vars, trigger_vars>>

----------------------------------------------------------------------------
(* The registry called on its own *)

LoadFlows ==
    /\ ~loaded
    /\ flows' = load_flows(config)
    /\ loaded' = TRUE
    /\ UNCHANGED <<now, rate_limits, accepted, config>>
    /\ UNCHANGED <<limiter_vars, trigger_vars, thread_vars>>

----------------------------------------------------------------------------
(* The trigger requests *)

OLA == <<"O", "l", "a">>
Names == {<<>>, <<" ">>, OLA, <<" ">> \o OLA \o <<"\t">>}
Keys == {<<>>, <<"k">>, <<" ", "k", "\n">>, <<"x">>}
FlowIds == {"f1", "f2", "nope"}
NoHeader == [present |-> FALSE, value |-> ""]
Forwarded == {NoHeader, [present |-> TRUE, value |-> "10.0.0.2"]}
ShortUA == <<"c", "u", "r", "l">>
LongUA == [i \in 1..(UA_MAX + 1) |-> "x"]
UserAgents == {ShortUA, LongUA}

Requests ==
    [flow_id : FlowIds, xff : Forwarded, remote_addr : {"10.0.0.1"},
     ua : UserAgents, name : Names, key : Keys]

\* the routine request that fills a window: a wrong code for flow f1
Baseline ==
    [flow_id |-> "f1", xff |-> NoHeader, remote_addr |-> "10.0.0.1",
     ua |-> ShortUA, name |-> OLA, key |-> <<"x">>]

NoResponse == [raised |-> FALSE, status_code |-> 0]
Responses ==
    {[raised |-> TRUE, status_code |-> 0]}
    \cup {[raised |-> FALSE, status_code |-> c] : c \in {200, 201, 202, 500}}

NoFail == <<FALSE, FALSE>>
Fails == {<<FALSE, FALSE>>, <<TRUE, FALSE>>, <<TRUE, TRUE>>}

NoRequest ==
    [kind |-> "NONE", redirect |-> "none", req |-> Baseline, ip |-> "",
     at |-> 0, window |-> 0, secret |-> <<>>, resp |-> NoResponse,
     fails |-> NoFail, nrows |-> 0, ncalls |-> 0]

InitTrigger ==
    /\ log_exists = FALSE
    /\ log = <<>>
    /\ outbound = <<>>
    /\ last = NoRequest
    /\ compared = [ip \in IPs |-> <<>>]
    /\ nreq = 0
    /\ probed = FALSE

\* the state after a request that ended as h
Apply(req, resp, fails, probe, h, ip, bucket, secret) ==
    /\ nreq < MaxRequests
    /\ probe => ~probed
    \* the environment's answers are read only where the code asks for them
    /\ h.calls = <<>> <=> resp = NoResponse
    /\ (h.rows = <<>> /\ h.kind # "UNHANDLED") => fails = NoFail
    /\ rate_limits' =
            IF h.checked THEN SetBucket(rate_limits, ip, RateAfter(bucket, now))
            ELSE rate_limits
    /\ accepted' = IF h.checked THEN Recorded(accepted, ip, bucket, now) ELSE accepted
    /\ log' = WriteAll(log_exists, log, h.rows)
    /\ log_exists' = (log_exists \/ h.rows # <<>>)
    /\ outbound' = outbound \o h.calls
    /\ compared' =
            IF h.compared THEN [compared EXCEPT ![ip] = Append(@, now)] ELSE compared
    /\ last' =
            [kind |-> h.kind, redirect |-> h.redirect, req |-> req, ip |-> ip,
             at |-> now, window |-> Len(Pruned(bucket, now)), secret |-> secret,
             resp |-> resp, fails |-> fails,
             nrows |-> Len(h.rows), ncalls |-> Len(h.calls)]
    /\ nreq' = nreq + 1
    /\ probed' = (probed \/ probe)
    /\ UNCHANGED <<now, config>>
    /\ UNCHANGED <<limiter_vars, registry_vars, thread_vars>>

SecretOf(fl, at) == IF at = 0 THEN <<>> ELSE fl[at].launch_key

Serve(fl, req, resp, fails, probe) ==
    Apply(req, resp, fails, probe,
          Handler(fl, rate_limits, now, req, resp, fails),
          get_client_ip(req), Bucket(rate_limits, get_client_ip(req)),
          SecretOf(fl, Lookup(fl, req.flow_id)))

\* one POST /trigger/<flow_id>, handled to its end
TriggerFlow(req, resp, fails, probe) ==
    Serve(load_flows(config), req, resp, fails, probe)

----------------------------------------------------------------------------
(* Specifications *)

\* check_rate_limit called one call at a time
InitRL == InitCommon /\ InitTrigger /\ config = ConfigOf(TriggerShape)

NextRL ==
    \/ \E d \in Deltas : Tick(d, MaxTime)
    \/ \E ip \in IPs : CheckRateLimit(ip)

SpecRL == InitRL /\ [][NextRL]_vars

\* load_flows applied to every configuration of Shapes
InitLoad == InitCommon /\ InitTrigger /\ config \in {ConfigOf(sh) : sh \in Shapes}

NextLoad == LoadFlows

SpecLoad == InitLoad /\ [][NextLoad]_vars

\* trigger requests handled one at a time, the audit log always writable:
\* the routine request any number of times, and one request drawn from Requests
Init == InitCommon /\ InitTrigger /\ config = ConfigOf(TriggerShape)

RoutineRequest == TriggerFlow(Baseline, NoResponse, NoFail, FALSE)

ProbeRequest(failures) ==
    /\ nreq < MaxRequests /\ ~probed
    /\ \E req \in Requests, resp \in Responses \cup {NoResponse}, fails \in failures :
            TriggerFlow(req, resp, fails, TRUE)

Next ==
    \/ \E d \in Deltas : Tick(d, MaxTriggerTime)
    \/ RoutineRequest
    \/ ProbeRequest({NoFail})

Spec == Init /\ [][Next]_vars

\* the same, with log_trigger calls that may raise in the request drawn
NextLogFail ==
    \/ \E d \in Deltas : Tick(d, MaxTriggerTime)
    \/ RoutineRequest
    \/ ProbeRequest(Fails)

SpecLogFail == Init /\ [][NextLogFail]_vars

\* check_rate_limit called by NThreads workers at once, for one client
NextConc ==
    \/ \E d \in Deltas : Tick(d, MaxTriggerTime)
    \/ \E th \in Threads :
          \/ Begin(th, "10.0.0.1")
          \/ PruneBuild(th)
          \/ PruneStore(th)
          \/ LengthCheck(th)
          \/ AppendLoad(th)
          \/ AppendCall(th)

\* the workers start when the client has used all but one slot of the window
Seeded == [i \in 1..(RATE_LIMIT_REQUESTS - 1) |-> 0]

InitConc ==
    /\ InitTrigger
    /\ config = ConfigOf(TriggerShape)
    /\ now = 0
    /\ rl = NoCall
    /\ ncalls = 0
    /\ flows = <<>>
    /\ loaded = FALSE
    /\ pc = [th \in Threads |-> "idle"]
    /\ call = [th \in Threads |-> NoLocals]
    /\ raced = FALSE
    /\ rate_limits = SetBucket(<<>>, "10.0.0.1", Seeded)
    /\ accepted = [ip \in IPs |-> IF ip = "10.0.0.1" THEN Seeded ELSE <<>>]

SpecConc == InitConc /\ [][NextConc]_vars

----------------------------------------------------------------------------
(* What the claims are stated in *)

Front(seq) == SubSeq(seq, 1, Len(seq) - 1)

\* the stamps of hist less than a window old at time t
Young(hist, t) == SelectSeq(hist, LAMBDA stamp : t - stamp < RATE_LIMIT_WINDOW)

\* no trailing window ending at a stamp of hist holds more than the capacity
TrailingBound(hist) ==
    \A i \in 1..Len(hist) :
        Cardinality({j \in 1..i : hist[i] - hist[j] < RATE_LIMIT_WINDOW})
            <= RATE_LIMIT_REQUESTS

DataRows(lines) == Cardinality({i \in 1..Len(lines) : lines[i].kind = "row"})
HeaderRows(lines) == Cardinality({i \in 1..Len(lines) : lines[i].kind = "header"})

\* the flows of the deployment TriggerShape and their secrets, as configured
DeployedSecret == [id \in {"f1", "f2"} |-> IF id = "f1" THEN <<"k">> ELSE <<"s">>]

Logged == {"VALIDATION_ERROR", "ACCESS_DENIED", "OK", "HTTP_ERROR", "EXCEPTION"}
Unlogged == {"NOT_FOUND", "RATE_LIMITED"}

\* a step that handles one trigger request
RequestStep == nreq' = nreq + 1

\* of the last request
LastName == Strip(last.req.name)
LastKey == Strip(last.req.key)

\* of the request a step handles: was its flow deployed, and the stamps of its
\* client that were inside the window when it came
Found == last'.req.flow_id \in DOMAIN DeployedSecret
Secret == DeployedSecret[last'.req.flow_id]
Before == Young(Bucket(rate_limits, last'.ip), now)
Passed == Found /\ Len(Before) < RATE_LIMIT_REQUESTS
Name == Strip(last'.req.name)
Key == Strip(last'.req.key)

----------------------------------------------------------------------------
(* C1: for every client ip, calls to check_rate_limit made one at a time on a
   non-decreasing clock record at most 10 accepted attempts in any trailing
   300-unit window; a call is rejected exactly when 10 accepted attempts of
   the client are less than 300 units old, it is accepted as soon as fewer
   remain, whatever rejected calls came before, and a rejected call records
   no stamp. *)
C1_RateLimit ==
    /\ \A ip \in IPs : TrailingBound(accepted[ip])
    /\ rl.made =>
          LET hist == accepted[rl.ip]
              prior == IF rl.ok THEN Front(hist) ELSE hist
              young == Young(prior, rl.at)
          IN  /\ rl.ok <=> Len(young) < RATE_LIMIT_REQUESTS
              /\ Bucket(rate_limits, rl.ip) =
                    IF rl.ok THEN Append(young, rl.at) ELSE young

\* a call accepted right after a rejected one, the window having re-opened
C1_Witness ==
    /\ rl.made /\ rl.ok /\ rl.after_reject
    /\ Len(accepted[rl.ip]) > RATE_LIMIT_REQUESTS

(* C2: a trigger request appends exactly one audit row when it ends in
   VALIDATION_ERROR, ACCESS_DENIED, OK, HTTP_ERROR or EXCEPTION, none when the
   flow id is unknown or the limiter rejects the client, and never two. *)
C2_OneRecord ==
    [][RequestStep =>
        /\ last'.kind \in Logged \cup Unlogged
        /\ last'.kind \in Logged => DataRows(log') = DataRows(log) + 1
        /\ last'.kind \in Unlogged => log' = log
        /\ DataRows(log') <= DataRows(log) + 1]_vars

\* the eleventh request of a window, rejected and not logged
C2_Witness ==
    /\ last.kind = "RATE_LIMITED"
    /\ DataRows(log) = RATE_LIMIT_REQUESTS

(* C3: a request whose trimmed code differs from the flow's secret issues no
   outbound call, and once it reached the secret check it appends exactly one
   row, of status ACCESS_DENIED; a request issues at most one outbound call,
   and only when the flow was found, the limiter accepted the client, name
   and code were non-empty and the code equalled the secret. *)
C3_NoCallOnMismatch ==
    [][RequestStep =>
        /\ Len(outbound') - Len(outbound) \in {0, 1}
        /\ SubSeq(outbound', 1, Len(outbound)) = outbound
        /\ Len(outbound') = Len(outbound) + 1 <=>
              (Passed /\ Name # <<>> /\ Key # <<>> /\ Key = Secret)
        /\ (Passed /\ Name # <<>> /\ Key # <<>> /\ Key # Secret) =>
              /\ last'.kind = "ACCESS_DENIED"
              /\ DataRows(log') = DataRows(log) + 1
              /\ log'[Len(log')].status = "ACCESS_DENIED"]_vars

\* the right code of flow f1 submitted for flow f2: denied, nothing sent
C3_Witness ==
    /\ last.kind = "ACCESS_DENIED"
    /\ last.req.flow_id = "f2" /\ LastKey = <<"k">>
    /\ outbound = <<>>
    /\ log[Len(log)].status = "ACCESS_DENIED"

(* C4: after a dispatch the audit row is decided by the outcome of the
   outbound call alone: status 200 or 202 gives OK with the status code,
   any other status gives HTTP_ERROR with the status code, a transport
   failure gives EXCEPTION with an empty status cell. *)
C4_OutcomeDecidesStatus ==
    [][(RequestStep /\ Len(outbound') > Len(outbound)) =>
        LET row == log'[Len(log')]
            resp == last'.resp
        IN  /\ DataRows(log') = DataRows(log) + 1
            /\ row.kind = "row"
            /\ row.status = last'.kind
            /\ resp.raised => row.status = "EXCEPTION" /\ row.http_status = ""
            /\ (~resp.raised /\ resp.status_code \in {200, 202}) =>
                  row.status = "OK" /\ row.http_status = ToString(resp.status_code)
            /\ (~resp.raised /\ resp.status_code \notin {200, 202}) =>
                  /\ row.status = "HTTP_ERROR"
                  /\ row.http_status = ToString(resp.status_code)]_vars

\* a 201 answer, logged as HTTP_ERROR with its code
C4_Witness ==
    /\ last.kind = "HTTP_ERROR" /\ last.resp.status_code = 201
    /\ log[Len(log)].status = "HTTP_ERROR" /\ log[Len(log)].http_status = "201"
    /\ Len(outbound) = 1

----------------------------------------------------------------------------
(* The registry's sources as the configuration was put together *)

Ids(fl) == [i \in 1..Len(fl) |-> fl[i].id]
Secrets(fl) == [i \in 1..Len(fl) |-> fl[i].launch_key]

YamlIds(sh) ==
    CASE sh.yaml = "one" -> <<"f1">>
      [] sh.yaml = "one_ref" -> <<"f2">>
      [] sh.yaml = "two" -> <<"f1", "f2">>
      [] OTHER -> <<>>

WholeGroup(shape, id) == IF shape = "whole" THEN <<id>> ELSE <<>>

GroupIds(sh) ==
    IF sh.g2_first THEN WholeGroup(sh.g2, "e2") \o WholeGroup(sh.g1, "e1")
    ELSE WholeGroup(sh.g1, "e1") \o WholeGroup(sh.g2, "e2")

LegacyIds(sh) == IF sh.legacy = "both" THEN <<"legacy_flow">> ELSE <<>>

FromEnvironment(sh) == IF GroupIds(sh) # <<>> THEN GroupIds(sh) ELSE LegacyIds(sh)

\* the file is there and loads
YamlLoads(sh) == sh.yaml \in {"empty", "one", "one_ref", "two"}

(* C5 as stated: load_flows returns the flows of the first source that yields
   any, in the order config file, environment groups, legacy pair. *)
C5_FirstNonEmptyWins ==
    loaded =>
        Ids(flows) = IF YamlIds(config.shape) # <<>> THEN YamlIds(config.shape)
                     ELSE FromEnvironment(config.shape)

(* C5 amended: a config file that exists and loads is the source even when it
   lists no flows, and the result is then empty; only a missing or unreadable
   file passes to the environment groups, which pass to the legacy pair when
   no group is complete; a config file with one valid flow yields exactly
   that flow whatever groups the environment holds. *)
C5_LoadedFileWins ==
    loaded =>
        /\ Ids(flows) = IF YamlLoads(config.shape) THEN YamlIds(config.shape)
                        ELSE FromEnvironment(config.shape)
        /\ (config.shape.yaml = "one") =>
              flows = <<YamlFlow("f1", <<"k">>)>>

\* an empty config file beside a complete environment group: no flows
C5_Witness ==
    /\ loaded /\ flows = <<>>
    /\ config.shape.yaml = "empty" /\ config.shape.g1 = "whole"

----------------------------------------------------------------------------
(* C6: every failure of a trigger request, a failing append to the audit log
   included, is recovered inside trigger_flow: the request ends with a
   redirect and no exception leaves the handler. *)
C6_AlwaysRedirects ==
    last.kind # "NONE" => last.kind # "UNHANDLED" /\ last.redirect # "none"

(* C7: a request that passed the limiter is a VALIDATION_ERROR exactly when
   its name or its code is empty once trimmed; its row then carries "EMPTY"
   for a blank name and the trimmed name otherwise, and the secret is not
   compared. *)
C7_Validation ==
    [][(RequestStep /\ Passed) =>
        /\ last'.kind = "VALIDATION_ERROR" <=> (Name = <<>> \/ Key = <<>>)
        /\ last'.kind = "VALIDATION_ERROR" =>
              /\ DataRows(log') = DataRows(log) + 1
              /\ log'[Len(log')].status = "VALIDATION_ERROR"
              /\ log'[Len(log')].name = IF Name = <<>> THEN EMPTY ELSE Name
              /\ compared' = compared
              /\ outbound' = outbound]_vars

\* a padded name with a blank code: the trimmed name is logged
C7_Witness ==
    /\ last.kind = "VALIDATION_ERROR"
    /\ last.req.name = <<" ">> \o OLA \o <<"\t">> /\ LastKey = <<>>
    /\ log[Len(log)].name = OLA

(* C8: the audit log is append-only: a log_trigger call adds exactly one data
   row at the end and leaves the earlier lines as they were, and the header
   is written once, as the first line, by the call that finds no file. *)
C8_AppendOnly ==
    [][/\ SubSeq(log', 1, Len(log)) = log
       /\ log' # log =>
            /\ DataRows(log') = DataRows(log) + 1
            /\ log'[Len(log')].kind = "row"
            /\ Len(log') = Len(log) + (IF log_exists THEN 1 ELSE 2)
       /\ log' # <<>> => log'[1].kind = "header" /\ HeaderRows(log') = 1
       /\ log_exists' = (log' # <<>>)]_vars

\* a header and three rows
C8_Witness == Len(log) = 4 /\ log[1] = HeaderLine /\ DataRows(log) = 3

(* C9: check_rate_limit is not atomic.  As long as no two calls for one
   client overlap, the client's list never holds more than 10 stamps and no
   trailing window holds more than 10 accepted attempts; with overlapping
   calls both can be exceeded. *)
C9_LimitNeedsAtomicity ==
    ~raced =>
        \A ip \in IPs :
            /\ Len(Bucket(rate_limits, ip)) <= RATE_LIMIT_REQUESTS
            /\ TrailingBound(accepted[ip])

\* eleven stamps of one window in the client's list
C9_Witness ==
    /\ raced
    /\ \E ip \in IPs :
          Len(Young(Bucket(rate_limits, ip), now)) > RATE_LIMIT_REQUESTS

(* C10: the rate check comes after the flow lookup and before validation and
   the secret check: a request for an unknown flow takes no slot, every
   request the limiter accepts takes one whatever its outcome, so at most 10
   codes of a client are compared with a secret in any trailing 300-unit
   window, and with 10 attempts in the window a request is rejected as
   rate-limited, the right code included, with no outbound call. *)
C10_SlotPerAttempt ==
    /\ [](\A ip \in IPs : TrailingBound(compared[ip]))
    /\ [][RequestStep =>
            LET after == Young(Bucket(rate_limits', last'.ip), now)
            IN  /\ ~Found => last'.kind = "NOT_FOUND" /\ rate_limits' = rate_limits
                /\ (Found /\ ~Passed) =>
                      /\ last'.kind = "RATE_LIMITED"
                      /\ after = Before
                      /\ outbound' = outbound /\ compared' = compared
                /\ Passed =>
                      /\ last'.kind \in Logged
                      /\ after = Append(Before, now)]_vars

\* ten wrong codes, then the right one: rate-limited, nothing sent
C10_Witness ==
    /\ last.kind = "RATE_LIMITED" /\ LastKey = DeployedSecret[last.req.flow_id]
    /\ Len(Young(compared[last.ip], last.at)) = RATE_LIMIT_REQUESTS
    /\ outbound = <<>>

====
